---- MODULE Spec2Model ----
(***************************************************************************)
(* Model of the update-delivery engine of go-zalo-bot: the BotAPI polling  *)
(* state (isPolling, updatesChan, stopPollingCh, pollingWg, ctx), the      *)
(* callers of GetUpdatesChan / StopPolling / Close, the pollUpdates        *)
(* goroutine with its stop-monitor goroutine, the getUpdates server and    *)
(* the consumer of the updates channel; and the request executor: the      *)
(* RetryConfig with NextDelay and ShouldRetry, and the retry loop of        *)
(* BaseService.DoRequest.                                                  *)
(*                                                                         *)
(* Channels are numbered in order of creation; 0 is the nil channel.       *)
(* Everything guarded by pollingMu is one atomic action; the two reads     *)
(* that the code makes without the mutex (b.stopPollingCh in the monitor,  *)
(* b.updatesChan in the publish) are steps of their own.                   *)
(***************************************************************************)
EXTENDS Integers, Sequences, FiniteSets, TLC

\* ---- bounds -------------------------------------------------------------

\* polling loops started in one run
MaxLoops == 2

\* application goroutines calling the client
NumCallers == 2

\* the server of the concurrent specifications draws update ids from 0..MaxId
MaxId == 0

\* and returns batches of at most MaxBatch updates
MaxBatch == 2

\* capacity of updatesChan: make(chan types.Update, 100), scaled down
ChanCap == 1

\* the server of PollSpec draws update ids from 0..PollMaxId
PollMaxId == 2

\* and returns batches of at most PollMaxBatch updates
PollMaxBatch == 2

\* InitialDelay and MaxDelay of the RetryConfigs of DelaySpec are 0..MaxDuration
MaxDuration == 4

\* NextDelay is called with the attempt indices 0..MaxAttempt
MaxAttempt == 4

\* MaxRetries of the RetryConfigs of RetrySpec is -1..RetriesBound
RetriesBound == 2

\* longest Retry-After of a response, in seconds
MaxRetryAfter == 3

\* most characters of a webhook signature
SigLen == 3

\* most characters of a secret token
SecretLen == 2

Loops   == 1..MaxLoops
Callers == 1..NumCallers

Max(a, b) == IF a >= b THEN a ELSE b

SeqsUpTo(S, n) == UNION {[1..k -> S] : k \in 0..n}

\* what one getUpdates call can decode: any list of update ids
Batches == SeqsUpTo(0..MaxId, MaxBatch)

\* the batch of the offset example of the design, ids with a duplicate and gaps
ExampleBatch == <<3, 5, 5, 7>>

\* the batches of the specification of one loop, PollSpec
PollBatches == SeqsUpTo(0..PollMaxId, PollMaxBatch) \cup {ExampleBatch}

\* UpdateConfig values the callers pass (Limit does not influence the loop)
ConfigOffsets  == {0, 1}
ConfigTimeouts == {0, 1}

\* ---- errors and RetryConfig ----------------------------------------------

\* the ErrorType constants
ErrorTypeAPI        == "api_error"
ErrorTypeNetwork    == "network_error"
ErrorTypeAuth       == "auth_error"
ErrorTypeValidation == "validation_error"
ErrorTypeRateLimit  == "rate_limit_error"

\* ErrorType is a string type: the five constants and any other string
ErrorTypes == {ErrorTypeAPI, ErrorTypeNetwork, ErrorTypeAuth,
               ErrorTypeValidation, ErrorTypeRateLimit, "custom_error"}

\* values of ZaloBotError.Code around the 5xx range
Codes == {0, 400, 429, 499, 500, 599, 600}

\* an error value: nil, an error that is not a *ZaloBotError, or a
\* *ZaloBotError with its Type and Code
NilError   == [kind |-> "nil", Type |-> "", Code |-> 0]
PlainError == [kind |-> "plain", Type |-> "", Code |-> 0]
ZaloBotError(type, code) == [kind |-> "zalo", Type |-> type, Code |-> code]

NewAPIError(code)  == ZaloBotError(ErrorTypeAPI, code)
NewNetworkError    == ZaloBotError(ErrorTypeNetwork, 0)
NewAuthError       == ZaloBotError(ErrorTypeAuth, 401)
NewValidationError == ZaloBotError(ErrorTypeValidation, 400)
NewRateLimitError  == ZaloBotError(ErrorTypeRateLimit, 429)

\* the errors ShouldRetry is called with
Errors == {PlainError} \cup {ZaloBotError(t, c) : t \in ErrorTypes, c \in Codes}

\* BackoffFactor is a float64: the factors 1/2, 1, 3/2 and 2, as fractions
BackoffFactors == {[num |-> 1, den |-> 2], [num |-> 1, den |-> 1],
                   [num |-> 3, den |-> 2], [num |-> 2, den |-> 1]}

\* DefaultRetryConfig(), the durations in seconds; RetryableErrors is used for
\* membership only and is the set of its elements
DefaultRetryConfig ==
    [MaxRetries |-> 3, InitialDelay |-> 1, MaxDelay |-> 30,
     BackoffFactor |-> [num |-> 2, den |-> 1],
     RetryableErrors |-> {ErrorTypeNetwork, ErrorTypeRateLimit}]

\* Config.Retries as New sets it
ConfigRetries == 3

\* a payload of zero bytes
EmptyPayload == [kind |-> "empty", update_id |-> 0, variants |-> {},
                 event_name |-> "", timestamp |-> 0, dataOk |-> TRUE]

\* a nil *types.Update
NilUpdate == [nil |-> TRUE, UpdateID |-> 0, variants |-> {}]

\* ProcessWebhook: its position pc ("idle" before the call, "returned"), its
\* arguments payload and signature, whether ParseUpdate was called, and the
\* returned pair
NoProcess == [pc |-> "idle", payload |-> EmptyPayload, signature |-> <<>>,
              parsed |-> FALSE, update |-> NilUpdate, err |-> "nil"]

\* no method of the RetryConfig has been called
NoRet == [fn |-> "none", arg |-> 0, out |-> 0]

\* DoRequest: its position pc ("idle" before the call, "head" at the loop
\* condition, "wait" in the backoff select, "execute" inside executeRequest,
\* "returned"), the loop variable attempt, lastErr, the delay of the backoff
\* timer, whether ctx is done, the returned pair (resp is "nil" or "resp"),
\* the number of executeRequest calls made so far, the Retry-After of the
\* last response if that was a 429 (0 without one), and the error_code of the
\* envelope of the last response if executeRequest took its error from the
\* envelope (-1 if not); of the HTTP response that was returned as a success,
\* its status code and whether its envelope said ok (0 and FALSE when no
\* response was returned)
NoRequest == [pc |-> "idle", attempt |-> 0, lastErr |-> NilError, delay |-> 0,
              ctxDone |-> FALSE, resp |-> "nil", err |-> NilError,
              attempts |-> 0, retryAfter |-> 0, envCode |-> -1,
              status |-> 0, ok |-> FALSE]

VARIABLES
    isPolling,      \* b.isPolling
    updatesChan,    \* b.updatesChan (channel number, 0 = nil)
    stopPollingCh,  \* b.stopPollingCh (stop channel number, 0 = nil)
    pollingWg,      \* counter of b.pollingWg
    ctxDone,        \* b.ctx has been cancelled
    chanBuf,        \* buffered updates of every updates channel
    chanClosed,     \* which updates channels are closed
    nChans,         \* updates channels made so far
    stopClosed,     \* which stop channels are closed
    nStops,         \* stop channels made so far
    loops,          \* the pollUpdates goroutines
    nLoops,         \* goroutines spawned so far
    callers,        \* the application goroutines
    panicked,       \* runtime panic of the process, "none" while it runs
    retryConfig,    \* the RetryConfig in use
    ret,            \* the last call of a RetryConfig method: fn, arg, out
    dr,             \* the activation of BaseService.DoRequest
    retries,        \* Config.Retries
    secretToken,    \* WebhookService.secretToken
    wh              \* the activation of WebhookService.ProcessWebhook

\* the polling state of the client
botVars == <<isPolling, updatesChan, stopPollingCh, pollingWg, ctxDone, chanBuf,
             chanClosed, nChans, stopClosed, nStops, loops, nLoops, callers,
             panicked>>

\* the state of the request executor
reqVars == <<retryConfig, ret, dr, retries>>

\* the state of the webhook service
whVars == <<secretToken, wh>>

vars == <<isPolling, updatesChan, stopPollingCh, pollingWg, ctxDone, chanBuf,
          chanClosed, nChans, stopClosed, nStops, loops, nLoops, callers,
          panicked, retryConfig, ret, dr, retries, secretToken, wh>>

\* a pollUpdates goroutine: its position pc, the channel ch made for it, its
\* parameter config (cfgOffset, timeout), its locals (offset, the batch updates
\* and the range index i, the Offset reqOffset of the last request), whether
\* pollCancel was called, and its monitor goroutine (position mpc, the stop
\* channel mch its select waits on).  prevFailed and waited record whether the
\* last request failed and whether a poll interval has elapsed since.  maxPub
\* is the largest id the loop has sent on the channel so far, -1 before the
\* first send (history, kept while the loop runs).
NoLoop == [pc |-> "none", ch |-> 0, cfgOffset |-> 0, timeout |-> 0,
           offset |-> 0, updates |-> <<>>, i |-> 0, reqOffset |-> 0,
           prevFailed |-> FALSE, waited |-> FALSE, from |-> "none",
           pollCancelled |-> FALSE, mpc |-> "none", mch |-> 0,
           maxPub |-> -1]

\* a caller is between calls ("idle" at first, "got" after GetUpdatesChan
\* returned channel val, "stopped" after StopPolling returned, "closed" after
\* Close returned) or inside StopPolling ("stopwait"), or inside Close
\* ("closewait" in its StopPolling, "cancel" before b.cancel()); in and after
\* StopPolling and Close val is the loop that was polling when it was called
NoCall == [pc |-> "idle", val |-> 0]

Ready(c) == callers[c].pc \in {"idle", "got", "stopped", "closed"}

\* the polling state after New
NewBot ==
    /\ isPolling = FALSE
    /\ updatesChan = 0
    /\ stopPollingCh = 0
    /\ pollingWg = 0
    /\ ctxDone = FALSE
    /\ chanBuf = [c \in Loops |-> <<>>]
    /\ chanClosed = [c \in Loops |-> FALSE]
    /\ nChans = 0
    /\ stopClosed = [s \in Loops |-> FALSE]
    /\ nStops = 0
    /\ loops = [l \in Loops |-> NoLoop]
    /\ nLoops = 0
    /\ callers = [c \in Callers |-> NoCall]
    /\ panicked = "none"

\* no call of the webhook service is in progress; no secret token is configured
NoWebhook ==
    /\ secretToken = <<>>
    /\ wh = NoProcess

\* no request is being executed; the client has the default configuration
Init ==
    /\ NewBot
    /\ retryConfig = DefaultRetryConfig
    /\ retries = ConfigRetries
    /\ ret = NoRet
    /\ dr = NoRequest
    /\ NoWebhook

Running == panicked = "none"

\* ---- GetUpdatesChan -------------------------------------------------------

\* UpdateConfig.Validate: clamps Limit and Timeout, never fails
ValidateTimeout(t) == IF t < 0 THEN 0 ELSE t

\* slip: the idle/polling check is missing
AlreadyPolling_Never == FALSE

AlreadyPolling == isPolling /\ updatesChan # 0

GetUpdatesChan(c, off, to) ==
    /\ Running
    /\ Ready(c)
    /\ IF AlreadyPolling
       THEN /\ callers' = [callers EXCEPT ![c] = [pc |-> "got", val |-> updatesChan]]
            /\ UNCHANGED <<isPolling, updatesChan, stopPollingCh, pollingWg,
                           nChans, nStops, loops, nLoops>>
       ELSE /\ nLoops < MaxLoops
            /\ LET newChan == IF updatesChan = 0 THEN nChans + 1 ELSE updatesChan
                   newStop == IF stopPollingCh = 0 THEN nStops + 1 ELSE stopPollingCh
                   l == nLoops + 1
               IN /\ updatesChan' = newChan
                  /\ nChans' = IF updatesChan = 0 THEN nChans + 1 ELSE nChans
                  /\ stopPollingCh' = newStop
                  /\ nStops' = IF stopPollingCh = 0 THEN nStops + 1 ELSE nStops
                  /\ isPolling' = TRUE
                  /\ pollingWg' = pollingWg + 1
                  /\ nLoops' = l
                  /\ loops' = [loops EXCEPT ![l] =
                        [NoLoop EXCEPT !.pc = "spawned", !.ch = newChan,
                                       !.cfgOffset = off,
                                       !.timeout = ValidateTimeout(to)]]
                  /\ callers' = [callers EXCEPT ![c] = [pc |-> "got", val |-> newChan]]
    /\ UNCHANGED <<ctxDone, chanBuf, chanClosed, stopClosed, panicked>>
    /\ UNCHANGED <<reqVars, whVars>>

\* ---- StopPolling and Close ------------------------------------------------

\* slip: the closed stop channel is left in the field
StoppedCh_Kept == stopPollingCh

\* value of b.stopPollingCh after the stop signal has been closed
StoppedCh == 0

\* the critical section of StopPolling
SignalStop ==
    IF isPolling /\ stopPollingCh # 0
    THEN /\ stopClosed' = [stopClosed EXCEPT ![stopPollingCh] = TRUE]
         /\ panicked' = IF stopClosed[stopPollingCh]
                        THEN "close of closed stop channel" ELSE panicked
         /\ stopPollingCh' = StoppedCh
    ELSE UNCHANGED <<stopClosed, panicked, stopPollingCh>>

StopPolling(c) ==
    /\ Running
    /\ Ready(c)
    /\ SignalStop
    /\ callers' = [callers EXCEPT ![c] =
                      [pc |-> "stopwait", val |-> IF isPolling THEN nLoops ELSE 0]]
    /\ UNCHANGED <<isPolling, updatesChan, pollingWg, ctxDone, chanBuf,
                   chanClosed, nChans, nStops, loops, nLoops>>
    /\ UNCHANGED <<reqVars, whVars>>

Close(c) ==
    /\ Running
    /\ Ready(c)
    /\ SignalStop
    /\ callers' = [callers EXCEPT ![c] =
                      [pc |-> "closewait", val |-> IF isPolling THEN nLoops ELSE 0]]
    /\ UNCHANGED <<isPolling, updatesChan, pollingWg, ctxDone, chanBuf,
                   chanClosed, nChans, nStops, loops, nLoops>>
    /\ UNCHANGED <<reqVars, whVars>>

\* slip: StopPolling does not wait for the goroutine
WaitReturns_NoWait == TRUE

\* b.pollingWg.Wait() returns: the counter is zero.  (A waiter that wakes
\* after another caller has already added to the counter again panics in
\* sync.WaitGroup; here it goes on waiting, so every return of the code is a
\* return of the model.)
WaitReturns == pollingWg = 0

StopPollingWait(c) ==
    /\ Running
    /\ callers[c].pc \in {"stopwait", "closewait"}
    /\ WaitReturns
    /\ callers' = [callers EXCEPT ![c].pc = IF callers[c].pc = "closewait"
                                            THEN "cancel" ELSE "stopped"]
    /\ UNCHANGED <<isPolling, updatesChan, stopPollingCh, pollingWg, ctxDone,
                   chanBuf, chanClosed, nChans, stopClosed, nStops, loops,
                   nLoops, panicked>>
    /\ UNCHANGED <<reqVars, whVars>>

CloseCancel(c) ==
    /\ Running
    /\ callers[c].pc = "cancel"
    /\ ctxDone' = TRUE
    /\ callers' = [callers EXCEPT ![c].pc = "closed"]
    /\ UNCHANGED <<isPolling, updatesChan, stopPollingCh, pollingWg, chanBuf,
                   chanClosed, nChans, stopClosed, nStops, loops, nLoops,
                   panicked>>
    /\ UNCHANGED <<reqVars, whVars>>

\* ---- pollUpdates ----------------------------------------------------------

\* slip: pollCtx is not derived from b.ctx
PollCtxDone_OwnOnly(l) == loops[l].pollCancelled

\* pollCtx.Done() is ready: pollCancel was called or the parent b.ctx is done
PollCtxDone(l) == loops[l].pollCancelled \/ ctxDone

\* slip: the loop resumes from the offset the previous loop had reached
InitialOffset_Resumed(l) ==
    IF l > 1 THEN loops[l - 1].offset ELSE loops[l].cfgOffset

\* offset := config.Offset
InitialOffset(l) == loops[l].cfgOffset

\* pollUpdates begins: offset := config.Offset, pollCtx is derived from b.ctx,
\* the monitor goroutine is spawned
LoopStart(l) ==
    /\ Running
    /\ loops[l].pc = "spawned"
    /\ loops' = [loops EXCEPT ![l].pc = "select",
                              ![l].offset = InitialOffset(l),
                              ![l].cfgOffset = 0,
                              ![l].mpc = "start"]
    /\ UNCHANGED <<isPolling, updatesChan, stopPollingCh, pollingWg, ctxDone,
                   chanBuf, chanClosed, nChans, stopClosed, nStops, nLoops,
                   callers, panicked>>
    /\ UNCHANGED <<reqVars, whVars>>

\* the monitor enters its select: the operand b.stopPollingCh is read here,
\* without pollingMu
MonitorSelect(l) ==
    /\ Running
    /\ loops[l].mpc = "start"
    /\ loops[l].pc # "done"
    /\ loops' = [loops EXCEPT ![l].mpc = "waiting", ![l].mch = stopPollingCh]
    /\ UNCHANGED <<isPolling, updatesChan, stopPollingCh, pollingWg, ctxDone,
                   chanBuf, chanClosed, nChans, stopClosed, nStops, nLoops,
                   callers, panicked>>
    /\ UNCHANGED <<reqVars, whVars>>

\* a receive from the nil channel never becomes ready
StopSignalled(l) == loops[l].mch # 0 /\ stopClosed[loops[l].mch]

\* one of the two cases of the monitor's select is ready: pollCancel()
MonitorFire(l) ==
    /\ Running
    /\ loops[l].mpc = "waiting"
    /\ loops[l].pc # "done"
    /\ StopSignalled(l) \/ ctxDone
    /\ loops' = [loops EXCEPT ![l].mpc = "done", ![l].pollCancelled = TRUE]
    /\ UNCHANGED <<isPolling, updatesChan, stopPollingCh, pollingWg, ctxDone,
                   chanBuf, chanClosed, nChans, stopClosed, nStops, nLoops,
                   callers, panicked>>
    /\ UNCHANGED <<reqVars, whVars>>

\* slip: the closed channel is left in the field
ClearedChan_Kept == updatesChan

\* value of b.updatesChan after the loop has closed it
ClearedChan == 0

\* the exit critical section, the same at every exit of the loop; the loop
\* uses none of its other locals after it (from: the point it leaves from)
StopAndClose(l) ==
    /\ chanClosed' = IF updatesChan # 0
                     THEN [chanClosed EXCEPT ![updatesChan] = TRUE]
                     ELSE chanClosed
    /\ panicked' = IF updatesChan # 0 /\ chanClosed[updatesChan]
                   THEN "close of closed updates channel" ELSE panicked
    /\ updatesChan' = ClearedChan
    /\ isPolling' = FALSE
    /\ loops' = [loops EXCEPT ![l] =
                    [NoLoop EXCEPT !.pc = "exited", !.from = loops[l].pc,
                                   !.ch = loops[l].ch,
                                   !.offset = loops[l].offset,
                                   !.pollCancelled = loops[l].pollCancelled,
                                   !.mpc = loops[l].mpc, !.mch = loops[l].mch]]

\* slip: the publish is a plain send, without the cancellation case
PublishSeesCancel_Blind(l) == FALSE

\* the select is suspended in a publish with the cancellation case
PublishSeesCancel(l) == loops[l].pc = "publish" /\ PollCtxDone(l)

\* the select is suspended in a poll-interval wait with the cancellation case
SleepSeesCancel(l) == loops[l].pc \in {"errwait", "emptywait"} /\ PollCtxDone(l)

\* case <-pollCtx.Done() of the loop head, of the publish and of both waits
PollCancelled(l) ==
    /\ Running
    /\ \/ loops[l].pc = "select" /\ PollCtxDone(l)
       \/ PublishSeesCancel(l)
       \/ SleepSeesCancel(l)
    /\ StopAndClose(l)
    /\ UNCHANGED <<stopPollingCh, pollingWg, ctxDone, chanBuf, nChans,
                   stopClosed, nStops, nLoops, callers>>
    /\ UNCHANGED <<reqVars, whVars>>

\* default case of the loop head: the request is sent with the current offset
IssueRequest(l) ==
    /\ Running
    /\ loops[l].pc = "select"
    /\ ~PollCtxDone(l)
    /\ loops' = [loops EXCEPT ![l].pc = "request",
                              ![l].reqOffset = loops[l].offset,
                              ![l].updates = <<>>, ![l].i = 0]
    /\ UNCHANGED <<isPolling, updatesChan, stopPollingCh, pollingWg, ctxDone,
                   chanBuf, chanClosed, nChans, stopClosed, nStops, nLoops,
                   callers, panicked>>
    /\ UNCHANGED <<reqVars, whVars>>

\* where the loop goes after the range over updates
AfterBatch(l, batch) ==
    IF Len(batch) = 0 /\ loops[l].timeout = 0 THEN "emptywait" ELSE "select"

\* GetUpdatesWithContext returns a batch
RequestSucceeds(l, batch) ==
    /\ Running
    /\ loops[l].pc = "request"
    /\ loops' = [loops EXCEPT ![l].pc = IF Len(batch) = 0
                                        THEN AfterBatch(l, batch)
                                        ELSE "publish",
                              ![l].updates = batch,
                              ![l].i = 1,
                              ![l].prevFailed = FALSE, ![l].waited = FALSE]
    /\ UNCHANGED <<isPolling, updatesChan, stopPollingCh, pollingWg, ctxDone,
                   chanBuf, chanClosed, nChans, stopClosed, nStops, nLoops,
                   callers, panicked>>
    /\ UNCHANGED <<reqVars, whVars>>

\* slip: a failed request is skipped over
OffsetAfterFailure_Skip(l) == loops[l].offset + 1

\* offset kept by the loop after a failed request
OffsetAfterFailure(l) == loops[l].offset

\* slip: a failed request ends the loop
AfterFailure_Exit == "exited"

\* where the loop goes after a failure that is not its cancellation
AfterFailure == "errwait"

\* GetUpdatesWithContext returns an error (transport failure, bad envelope,
\* or the request aborted through pollCtx)
RequestFails(l) ==
    /\ Running
    /\ loops[l].pc = "request"
    /\ IF PollCtxDone(l)
       THEN StopAndClose(l)
       ELSE /\ loops' = [loops EXCEPT ![l].pc = AfterFailure,
                                      ![l].offset = OffsetAfterFailure(l),
                                      ![l].prevFailed = TRUE,
                                      ![l].waited = FALSE]
            /\ UNCHANGED <<isPolling, updatesChan, chanClosed, panicked>>
    /\ UNCHANGED <<stopPollingCh, pollingWg, ctxDone, chanBuf, nChans,
                   stopClosed, nStops, nLoops, callers>>
    /\ UNCHANGED <<reqVars, whVars>>

\* slip: the offset follows the last id, without the comparison
Acknowledge_Last(offset, id) == id + 1

\* offset after update id has been sent
Acknowledge(offset, id) == IF id >= offset THEN id + 1 ELSE offset

\* case b.updatesChan <- update: b.updatesChan is read here without pollingMu
Publish(l) ==
    /\ Running
    /\ loops[l].pc = "publish"
    /\ updatesChan # 0
    /\ chanClosed[updatesChan] \/ Len(chanBuf[updatesChan]) < ChanCap
    /\ LET u == loops[l].updates[loops[l].i]
           last == loops[l].i = Len(loops[l].updates)
       IN IF chanClosed[updatesChan]
          THEN /\ panicked' = "send on closed channel"
               /\ UNCHANGED <<chanBuf, loops>>
          ELSE /\ chanBuf' = [chanBuf EXCEPT ![updatesChan] = Append(@, u)]
               /\ loops' = [loops EXCEPT
                     ![l].offset = Acknowledge(loops[l].offset, u),
                     ![l].maxPub = Max(@, u),
                     ![l].i = @ + 1,
                     ![l].pc = IF last THEN AfterBatch(l, loops[l].updates)
                                       ELSE "publish"]
               /\ UNCHANGED panicked
    /\ UNCHANGED <<isPolling, updatesChan, stopPollingCh, pollingWg, ctxDone,
                   chanClosed, nChans, stopClosed, nStops, nLoops, callers>>
    /\ UNCHANGED <<reqVars, whVars>>

\* case <-time.After(pollInterval) of either wait
TimerFires(l) ==
    /\ Running
    /\ loops[l].pc \in {"errwait", "emptywait"}
    /\ loops' = [loops EXCEPT ![l].pc = "select", ![l].waited = TRUE]
    /\ UNCHANGED <<isPolling, updatesChan, stopPollingCh, pollingWg, ctxDone,
                   chanBuf, chanClosed, nChans, stopClosed, nStops, nLoops,
                   callers, panicked>>
    /\ UNCHANGED <<reqVars, whVars>>

\* the deferred calls of pollUpdates: pollCancel() and b.pollingWg.Done().
\* The goroutine is over: of its locals only the offset it reached is kept, and
\* its monitor, whose pollCancel() has no effect any more, is tracked no further
LoopReturn(l) ==
    /\ Running
    /\ loops[l].pc = "exited"
    /\ loops' = [loops EXCEPT ![l] =
                    [NoLoop EXCEPT !.pc = "done", !.ch = loops[l].ch,
                                   !.offset = loops[l].offset,
                                   !.pollCancelled = TRUE, !.mpc = "moot"]]
    /\ pollingWg' = pollingWg - 1
    /\ UNCHANGED <<isPolling, updatesChan, stopPollingCh, ctxDone, chanBuf,
                   chanClosed, nChans, stopClosed, nStops, nLoops, callers,
                   panicked>>
    /\ UNCHANGED <<reqVars, whVars>>

\* ---- the consumer ---------------------------------------------------------

\* the application receives the oldest buffered update of a channel
Consume(ch) ==
    /\ Running
    /\ Len(chanBuf[ch]) > 0
    /\ chanBuf' = [chanBuf EXCEPT ![ch] = Tail(@)]
    /\ UNCHANGED <<isPolling, updatesChan, stopPollingCh, pollingWg, ctxDone,
                   chanClosed, nChans, stopClosed, nStops, loops, nLoops,
                   callers, panicked>>
    /\ UNCHANGED <<reqVars, whVars>>

\* ---- specification --------------------------------------------------------

\* the steps of the goroutines of the client and of the consumer, with the
\* batches B the server may return
Goroutines(B) ==
    \/ \E l \in Loops : LoopStart(l)
    \/ \E l \in Loops : MonitorSelect(l)
    \/ \E l \in Loops : MonitorFire(l)
    \/ \E l \in Loops : PollCancelled(l)
    \/ \E l \in Loops : IssueRequest(l)
    \/ \E l \in Loops, batch \in B : RequestSucceeds(l, batch)
    \/ \E l \in Loops : RequestFails(l)
    \/ \E l \in Loops : Publish(l)
    \/ \E l \in Loops : TimerFires(l)
    \/ \E l \in Loops : LoopReturn(l)
    \/ \E ch \in Loops : Consume(ch)

\* concurrent callers
Next ==
    \/ \E c \in Callers, to \in ConfigTimeouts : GetUpdatesChan(c, 0, to)
    \/ \E c \in Callers : StopPolling(c)
    \/ \E c \in Callers : Close(c)
    \/ \E c \in Callers : StopPollingWait(c)
    \/ \E c \in Callers : CloseCancel(c)
    \/ Goroutines(Batches)

Spec == Init /\ [][Next]_vars

\* one application goroutine
NextOne ==
    \/ \E off \in ConfigOffsets, to \in ConfigTimeouts : GetUpdatesChan(1, off, to)
    \/ StopPolling(1)
    \/ Close(1)
    \/ StopPollingWait(1)
    \/ CloseCancel(1)
    \/ Goroutines(Batches)

OneSpec == Init /\ [][NextOne]_vars

\* one application goroutine that starts polling once, with the batches B the
\* server may return
NextPoll(B) ==
    \/ /\ nLoops = 0
       /\ \E off \in ConfigOffsets, to \in ConfigTimeouts : GetUpdatesChan(1, off, to)
    \/ StopPolling(1)
    \/ Close(1)
    \/ StopPollingWait(1)
    \/ CloseCancel(1)
    \/ Goroutines(B)

PollSpec == Init /\ [][NextPoll(PollBatches)]_vars

\* Scheduling of the one-caller system: every goroutine that can take a step
\* eventually takes one, a request in flight completes, timers fire, the
\* consumer keeps receiving, and a call in progress continues.  Whether the
\* application makes another call is left open.
Fairness ==
    /\ \A l \in Loops :
          /\ WF_vars(LoopStart(l))
          /\ WF_vars(MonitorSelect(l))
          /\ WF_vars(MonitorFire(l))
          /\ WF_vars(PollCancelled(l))
          /\ WF_vars(IssueRequest(l))
          /\ WF_vars(RequestFails(l) \/ \E batch \in Batches : RequestSucceeds(l, batch))
          /\ WF_vars(Publish(l))
          /\ WF_vars(TimerFires(l))
          /\ WF_vars(LoopReturn(l))
          /\ WF_vars(Consume(l))
    /\ WF_vars(StopPollingWait(1))
    /\ WF_vars(CloseCancel(1))

FairSpec == Init /\ [][NextOne]_vars /\ Fairness

\* Only the loop's select is scheduled: a ready cancellation case is taken.
\* Neither the consumer nor the timers nor the server are required to act.
CancelSpec == Init /\ [][NextPoll(Batches)]_vars
                   /\ \A l \in Loops : WF_vars(PollCancelled(l))

\* ---- RetryConfig: NextDelay and ShouldRetry -------------------------------

RECURSIVE Pow(_, _)
Pow(b, n) == IF n <= 0 THEN 1 ELSE b * Pow(b, n - 1)

\* time.Duration(float64(delay) * BackoffFactor): the product, truncated
Scale(delay, f) == (delay * f.num) \div f.den

\* the for loop of NextDelay from index i on
RECURSIVE NextDelayLoop(_, _, _, _)
NextDelayLoop(rc, delay, i, attempt) ==
    IF i >= attempt
    THEN delay
    ELSE LET d == Scale(delay, rc.BackoffFactor)
         IN  IF d > rc.MaxDelay
             THEN rc.MaxDelay
             ELSE NextDelayLoop(rc, d, i + 1, attempt)

NextDelay(rc, attempt) ==
    IF attempt <= 0
    THEN rc.InitialDelay
    ELSE NextDelayLoop(rc, rc.InitialDelay, 0, attempt)

\* slip: the upper end of the 5xx range is not checked
ServerError_Open(code) == code >= 500

ServerError(code) == code >= 500 /\ code < 600

\* slip: the default case of the switch answers true
IsRetryable_Always(e) == TRUE

\* ZaloBotError.IsRetryable
IsRetryable(e) ==
    CASE e.Type \in {ErrorTypeNetwork, ErrorTypeRateLimit} -> TRUE
      [] e.Type = ErrorTypeAPI -> ServerError(e.Code)
      [] OTHER -> FALSE

ShouldRetry(rc, e) ==
    IF e.kind # "zalo"
    THEN TRUE
    ELSE IF e.Type \in rc.RetryableErrors
         THEN TRUE
         ELSE IsRetryable(e)

\* the RetryConfigs of DelaySpec: every pair of delays and every factor
DelayConfigs ==
    {[DefaultRetryConfig EXCEPT !.InitialDelay = i, !.MaxDelay = m,
                                !.BackoffFactor = f] :
        i \in 0..MaxDuration, m \in 0..MaxDuration, f \in BackoffFactors}

\* the RetryConfigs of RetrySpec: every MaxRetries and every retryable set,
\* and the default configuration (which also stands for a nil
\* s.config.RetryConfig, replaced by it at the head of DoRequest)
RetryConfigs ==
    {[DefaultRetryConfig EXCEPT !.MaxRetries = m, !.RetryableErrors = r] :
        m \in -1..RetriesBound, r \in SUBSET ErrorTypes}
    \cup {DefaultRetryConfig}

\* rc.NextDelay(n) is called
CallNextDelay(n) ==
    /\ dr.pc = "idle"
    /\ ret' = [fn |-> "NextDelay", arg |-> n, out |-> NextDelay(retryConfig, n)]
    /\ UNCHANGED <<botVars, whVars, retries, retryConfig, dr>>

\* rc.ShouldRetry(e) is called
CallShouldRetry(e) ==
    /\ dr.pc = "idle"
    /\ ret' = [fn |-> "ShouldRetry", arg |-> e, out |-> ShouldRetry(retryConfig, e)]
    /\ UNCHANGED <<botVars, whVars, retries, retryConfig, dr>>

\* ---- Config.Retries --------------------------------------------------------

\* Config.Validate: a zero Retries becomes the default
Validate(n) == IF n = 0 THEN 3 ELSE n

\* New(botToken, WithRetries(n)): the option sets Config.Retries, Validate
\* follows; RetryConfig stays nil, which DoRequest reads as the default
New(n) ==
    /\ dr.pc = "idle"
    /\ retries' = Validate(n)
    /\ retryConfig' = DefaultRetryConfig
    /\ UNCHANGED <<botVars, whVars, ret, dr>>

\* NewBaseService(authService, client, config) with config.Retries = n set on
\* the Config itself; no Validate
NewBaseService(n) ==
    /\ dr.pc = "idle"
    /\ retries' = n
    /\ UNCHANGED <<botVars, whVars, retryConfig, ret, dr>>

\* ---- BaseService.DoRequest ------------------------------------------------

\* slip: the exponent is one less, so the first retry waits InitialDelay
CalculateBackoffDelay_Prev(attempt, config) ==
    IF attempt <= 0 THEN config.InitialDelay
    ELSE LET d == (config.InitialDelay
                      * Pow(config.BackoffFactor.num, attempt - 1))
                      \div Pow(config.BackoffFactor.den, attempt - 1)
         IN  IF d > config.MaxDelay THEN config.MaxDelay ELSE d

\* calculateBackoffDelay: InitialDelay * math.Pow(BackoffFactor, attempt),
\* truncated and capped
CalculateBackoffDelay(attempt, config) ==
    IF attempt <= 0
    THEN config.InitialDelay
    ELSE LET d == (config.InitialDelay * Pow(config.BackoffFactor.num, attempt))
                      \div Pow(config.BackoffFactor.den, attempt)
         IN  IF d > config.MaxDelay THEN config.MaxDelay ELSE d

\* the HTTP status codes a response carries
Statuses == {200, 400, 401, 403, 429, 500}

\* the error_code values of a response body
ErrorCodes == {0, 400, 401, 429, 500}

\* the seconds a Retry-After header names; 0 is a response without the header
RetryAfters == 0..MaxRetryAfter

\* a response body: bytes that are no JSON document, or an APIResponse
Garbage == [kind |-> "garbage", OK |-> FALSE, ErrorCode |-> 0]

Bodies ==
    {Garbage, [kind |-> "json", OK |-> TRUE, ErrorCode |-> 0]}
    \cup {[kind |-> "json", OK |-> FALSE, ErrorCode |-> c] : c \in ErrorCodes}

\* how far one executeRequest gets: json.Marshal of the body fails,
\* http.NewRequestWithContext fails, s.client.Do fails, io.ReadAll fails, or an
\* HTTP response is read whole
Failed(stage) == [stage |-> stage, status |-> 0, retryAfter |-> 0,
                  body |-> Garbage]

Responses ==
    {Failed(stage) : stage \in {"marshal", "newrequest", "do", "read"}}
    \cup [stage : {"http"}, status : Statuses, retryAfter : RetryAfters,
          body : Bodies]

\* slip: every envelope error is a generic API error
GetError_Generic(r) == IF r.OK THEN NilError ELSE NewAPIError(r.ErrorCode)

\* r.GetError()
GetError(r) ==
    IF r.OK THEN NilError
    ELSE IF r.ErrorCode = 429 THEN NewRateLimitError
    ELSE IF r.ErrorCode \in {401, 403} THEN NewAuthError
    ELSE NewAPIError(r.ErrorCode)

\* slip: the body is looked at before the status
ExecuteResult_BodyFirst(r) ==
    IF r.stage = "marshal" THEN NewValidationError
    ELSE IF r.stage # "http" THEN NewNetworkError
    ELSE IF r.body.kind = "json" /\ ~r.body.OK THEN GetError(r.body)
    ELSE IF r.status = 429 THEN NewRateLimitError
    ELSE IF r.status \in {401, 403} THEN NewAuthError
    ELSE IF r.body.kind = "garbage" THEN NewAPIError(r.status)
    ELSE NilError

\* the error executeRequest returns for r (NilError with a response)
ExecuteResult(r) ==
    IF r.stage = "marshal" THEN NewValidationError
    ELSE IF r.stage \in {"newrequest", "do", "read"} THEN NewNetworkError
    ELSE IF r.status = 429 THEN NewRateLimitError
    ELSE IF r.status \in {401, 403} THEN NewAuthError
    ELSE IF r.body.kind = "garbage" THEN NewAPIError(r.status)
    ELSE IF ~r.body.OK
         THEN LET err == GetError(r.body)
              IN  IF err # NilError THEN err ELSE NewAPIError(r.body.ErrorCode)
    ELSE NilError

\* rateLimitInfo.RetryAfter as the 429 branch of executeRequest reads it
RateLimitRetryAfter(r) ==
    IF r.stage = "http" /\ r.status = 429 THEN r.retryAfter ELSE 0

\* executeRequest reaches the test of apiResp.OK with an envelope that is not
\* ok: the error_code of that envelope, -1 for every other response
EnvelopeCode(r) ==
    IF /\ r.stage = "http"
       /\ r.status \notin {429, 401, 403}
       /\ r.body.kind = "json"
       /\ ~r.body.OK
    THEN r.body.ErrorCode
    ELSE -1

\* what executeRequest can return: success (a response and a nil error) or one
\* of the errors it constructs
ExecOutcomes == {ExecuteResult(r) : r \in Responses}

ExecErrors == ExecOutcomes \ {NilError}

\* executeRequest is called and gets the response r
CallExecuteRequest(r) ==
    /\ dr.pc = "idle"
    /\ ret' = [fn |-> "executeRequest", arg |-> r, out |-> ExecuteResult(r)]
    /\ UNCHANGED <<botVars, whVars, retries, retryConfig, dr>>

\* DoRequest is called, with a ctx that is live or already done
DoRequestCall(done) ==
    /\ dr.pc = "idle"
    /\ dr' = [NoRequest EXCEPT !.pc = "head", !.ctxDone = done]
    /\ ret' = NoRet
    /\ UNCHANGED <<botVars, whVars, retries, retryConfig>>

\* the caller cancels ctx, or its deadline passes
CtxCancel ==
    /\ dr.pc \in {"head", "wait", "execute"}
    /\ ~dr.ctxDone
    /\ dr' = [dr EXCEPT !.ctxDone = TRUE]
    /\ UNCHANGED <<botVars, whVars, retries, retryConfig, ret>>

\* return resp, err
Return(resp, err) == dr' = [dr EXCEPT !.pc = "returned", !.resp = resp, !.err = err]

\* the loop condition attempt <= MaxRetries; after the loop, return nil, lastErr
DoRequestHead ==
    /\ dr.pc = "head"
    /\ IF dr.attempt <= retryConfig.MaxRetries
       THEN IF dr.attempt > 0
            THEN dr' = [dr EXCEPT !.pc = "wait",
                                  !.delay = CalculateBackoffDelay(dr.attempt,
                                                                  retryConfig)]
            ELSE dr' = [dr EXCEPT !.pc = "execute"]
       ELSE Return("nil", dr.lastErr)
    /\ UNCHANGED <<botVars, whVars, retries, retryConfig, ret>>

\* slip: the backoff select has no ctx.Done() case
CtxDone_Never == FALSE

\* <-ctx.Done() is ready
CtxDone == dr.ctxDone

\* case <-ctx.Done() of the backoff select
BackoffCancelled ==
    /\ dr.pc = "wait"
    /\ CtxDone
    /\ Return("nil", NewNetworkError)
    /\ UNCHANGED <<botVars, whVars, retries, retryConfig, ret>>

\* case <-time.After(delay) of the backoff select
BackoffTimer ==
    /\ dr.pc = "wait"
    /\ dr' = [dr EXCEPT !.pc = "execute"]
    /\ UNCHANGED <<botVars, whVars, retries, retryConfig, ret>>

\* slip: the nil error is not recognised
Succeeded_Never(err) == FALSE

\* err == nil
Succeeded(err) == err = NilError

\* slip: ShouldRetry is not consulted, every error is retried while retries
\* are left
ExecuteRequest_NoReject(r) ==
    /\ dr.pc = "execute"
    /\ dr.ctxDone => r.stage \in {"marshal", "newrequest", "do"}
    /\ LET outcome == ExecuteResult(r)
           made == [dr EXCEPT !.attempts = @ + 1,
                              !.retryAfter = RateLimitRetryAfter(r),
                              !.envCode = EnvelopeCode(r)]
       IN  IF Succeeded(outcome)
           THEN dr' = [made EXCEPT !.pc = "returned", !.resp = "resp",
                                   !.err = NilError,
                                   !.status = r.status,
                                   !.ok = r.body.kind = "json" /\ r.body.OK]
           ELSE IF dr.attempt >= retryConfig.MaxRetries
                THEN dr' = [made EXCEPT !.pc = "returned", !.lastErr = outcome,
                                        !.err = outcome]
                ELSE dr' = [made EXCEPT !.pc = "head", !.lastErr = outcome,
                                        !.attempt = @ + 1]
    /\ UNCHANGED <<botVars, whVars, retries, retryConfig, ret>>

\* executeRequest gets the response r (with a ctx that is done no HTTP
\* response arrives), and DoRequest goes on to its next wait or returns
ExecuteRequest(r) ==
    /\ dr.pc = "execute"
    /\ dr.ctxDone => r.stage \in {"marshal", "newrequest", "do"}
    /\ LET outcome == ExecuteResult(r)
           made == [dr EXCEPT !.attempts = @ + 1,
                              !.retryAfter = RateLimitRetryAfter(r),
                              !.envCode = EnvelopeCode(r)]
       IN  IF Succeeded(outcome)
           THEN dr' = [made EXCEPT !.pc = "returned", !.resp = "resp",
                                   !.err = NilError,
                                   !.status = r.status,
                                   !.ok = r.body.kind = "json" /\ r.body.OK]
           ELSE IF ~ShouldRetry(retryConfig, outcome)
                THEN dr' = [made EXCEPT !.pc = "returned", !.lastErr = outcome,
                                        !.err = outcome]
                ELSE IF dr.attempt >= retryConfig.MaxRetries
                     THEN dr' = [made EXCEPT !.pc = "returned",
                                             !.lastErr = outcome,
                                             !.err = outcome]
                     ELSE dr' = [made EXCEPT !.pc = "head",
                                             !.lastErr = outcome,
                                             !.attempt = @ + 1]
    /\ UNCHANGED <<botVars, whVars, retries, retryConfig, ret>>

\* ---- specifications of the request executor --------------------------------

\* a client with one of the RetryConfigs C, before any call
RetryInit(C) ==
    /\ NewBot
    /\ retryConfig \in C
    /\ retries = ConfigRetries
    /\ ret = NoRet
    /\ dr = NoRequest
    /\ NoWebhook

DelayNext == \E n \in 0..MaxAttempt : CallNextDelay(n)

\* NextDelay, for every delay configuration
DelaySpec == RetryInit(DelayConfigs) /\ [][DelayNext]_vars

RetryNext ==
    \/ \E e \in Errors : CallShouldRetry(e)
    \/ \E done \in BOOLEAN : DoRequestCall(done)
    \/ CtxCancel
    \/ DoRequestHead
    \/ BackoffCancelled
    \/ BackoffTimer
    \/ \E r \in Responses : ExecuteRequest(r)

\* ShouldRetry and one DoRequest, for every retry configuration
RetrySpec == RetryInit(RetryConfigs) /\ [][RetryNext]_vars

\* s.calculateBackoffDelay(n, rc) is called
CallCalculateBackoffDelay(n) ==
    /\ dr.pc = "idle"
    /\ ret' = [fn |-> "calculateBackoffDelay", arg |-> n,
               out |-> CalculateBackoffDelay(n, retryConfig)]
    /\ UNCHANGED <<botVars, whVars, retries, retryConfig, dr>>

BothDelaysNext ==
    \/ \E n \in 0..MaxAttempt : CallNextDelay(n)
    \/ \E n \in 0..MaxAttempt : CallCalculateBackoffDelay(n)

\* the two delay computations, for every delay configuration
BothDelaysSpec == RetryInit(DelayConfigs) /\ [][BothDelaysNext]_vars

\* one DoRequest, for every delay configuration (with the default MaxRetries
\* and RetryableErrors)
BackoffSpec == RetryInit(DelayConfigs) /\ [][RetryNext]_vars

ExecNext == \E r \in Responses : CallExecuteRequest(r)

\* executeRequest, for every response
ExecSpec == Init /\ [][ExecNext]_vars

ConfigNext ==
    \/ \E n \in 0..RetriesBound : New(n)
    \/ \E n \in 0..RetriesBound : NewBaseService(n)
    \/ RetryNext

\* a client built with any Retries, and one DoRequest
ConfigSpec == Init /\ [][ConfigNext]_vars

\* executeRequest alone and inside one DoRequest of the default client
EnvelopeSpec == Init /\ [][ExecNext \/ RetryNext]_vars

\* Only the backoff select is scheduled: its ready ctx.Done() case is taken.
\* The timer is not required to fire, nor the server to answer.
RetryCancelSpec == RetrySpec /\ WF_vars(BackoffCancelled)

\* DoRequest runs on: the loop condition is evaluated, the backoff select takes
\* a ready case, and executeRequest returns (the HTTP client has a timeout)
RetryFairSpec ==
    RetrySpec /\ WF_vars(DoRequestHead)
              /\ WF_vars(BackoffCancelled \/ BackoffTimer)
              /\ WF_vars(\E r \in Responses : ExecuteRequest(r))

\* ---- webhook: signature validation ------------------------------------------

\* strings are sequences of characters; strings.TrimSpace removes the white
\* space at both ends
RECURSIVE TrimLeft(_)
TrimLeft(s) ==
    IF s = <<>> THEN s
    ELSE IF Head(s) = " " THEN TrimLeft(Tail(s)) ELSE s

RECURSIVE TrimRight(_)
TrimRight(s) ==
    IF s = <<>> THEN s
    ELSE IF s[Len(s)] = " " THEN TrimRight(SubSeq(s, 1, Len(s) - 1)) ELSE s

TrimSpace(s) == TrimRight(TrimLeft(s))

\* every string of at most n characters of the set chars
Strings(chars, n) == UNION {[1..k -> chars] : k \in 0..n}

\* the signatures a request carries: hex digits and blanks
Signatures == Strings({" ", "a", "b"}, SigLen)

\* the secret tokens
Secrets == Strings({" ", "s"}, SecretLen)

\* the byte value of a character
Byte(c) == CASE c = " " -> 32 [] c = "a" -> 97 [] c = "b" -> 98 [] c = "s" -> 115

RECURSIVE ByteSum(_)
ByteSum(s) == IF s = <<>> THEN 0 ELSE Byte(Head(s)) + ByteSum(Tail(s))

\* a number that stands for the bytes of a payload
PayloadSum(payload) ==
    IF payload.kind = "empty" THEN 0
    ELSE IF payload.kind = "garbage" THEN 1
    ELSE 2 + payload.update_id + Cardinality(payload.variants)
           + payload.timestamp + (IF payload.dataOk THEN 0 ELSE 1)

\* hex.EncodeToString of one digest bit
HexDigit(n) == IF n % 2 = 0 THEN "a" ELSE "b"

\* hex.EncodeToString(HMAC-SHA256(secret, payload)): a string of hex digits of
\* fixed length that the key and the message determine; the model's digest has
\* two digits, one of the key with its length and one of key and message
Digest(secret, payload) ==
    <<HexDigit(ByteSum(secret) + Len(secret)),
      HexDigit(ByteSum(secret) + PayloadSum(payload))>>

\* slip: only the first character of the signature is compared
VerifyWebhookSignature_FirstChar(payload, signature, secret) ==
    IF payload.kind = "empty" \/ TrimSpace(signature) = <<>>
                              \/ TrimSpace(secret) = <<>>
    THEN FALSE
    ELSE Head(signature) = Head(Digest(secret, payload))

\* utils.VerifyWebhookSignature: hmac.Equal compares the signature as given
\* with the digest
VerifyWebhookSignature(payload, signature, secret) ==
    IF payload.kind = "empty" \/ TrimSpace(signature) = <<>>
                              \/ TrimSpace(secret) = <<>>
    THEN FALSE
    ELSE signature = Digest(secret, payload)

\* slip: the secret is tested before the signature
ValidateWebhookSignature_SecretFirst(payload, signature, secret) ==
    IF payload.kind = "empty" THEN "ErrEmptyPayload"
    ELSE IF TrimSpace(secret) = <<>> THEN "ErrEmptySecret"
    ELSE IF TrimSpace(signature) = <<>> THEN "ErrEmptySignature"
    ELSE IF ~VerifyWebhookSignature(payload, signature, secret)
         THEN "ErrInvalidSignature"
    ELSE "nil"

\* utils.ValidateWebhookSignature
ValidateWebhookSignature(payload, signature, secret) ==
    IF payload.kind = "empty" THEN "ErrEmptyPayload"
    ELSE IF TrimSpace(signature) = <<>> THEN "ErrEmptySignature"
    ELSE IF TrimSpace(secret) = <<>> THEN "ErrEmptySecret"
    ELSE IF ~VerifyWebhookSignature(payload, signature, secret)
         THEN "ErrInvalidSignature"
    ELSE "nil"

\* slip: every signature is accepted
ValidateSignature_Accept(payload, signature) == "nil"

\* s.ValidateSignature
ValidateSignature(payload, signature) ==
    ValidateWebhookSignature(payload, signature, secretToken)

\* ---- webhook: parsing -------------------------------------------------------

\* the variants of an Update: Message, PostbackEvent, UserAction
Variants == {"message", "postback", "user_action"}

\* the event names convertWebhookEventToUpdate knows
MessageEvents == {"message", "text_message", "message_received"}

PostbackEvents == {"postback", "button_click"}

UserActionEvents == {"user_action", "user_join", "user_leave", "user_block"}

\* the event names of the payloads: one of each class and an unknown one
EventNames == {"message", "button_click", "user_join", "user_send_text"}

\* the timestamps of the payloads
Timestamps == {0, 2}

\* the payloads: zero bytes, bytes that are no JSON object, JSON objects with
\* an update_id and the objects message, postback, user_action of the set
\* variants, and JSON objects with an event_name, a timestamp and data (dataOk:
\* data decodes as the event_name requires)
Payloads ==
    {EmptyPayload, [EmptyPayload EXCEPT !.kind = "garbage"]}
    \cup [kind : {"object"}, update_id : {0, 1}, variants : SUBSET Variants,
          event_name : {""}, timestamp : {0}, dataOk : {TRUE}]
    \cup [kind : {"object"}, update_id : {0}, variants : {{}},
          event_name : EventNames, timestamp : Timestamps, dataOk : BOOLEAN]

\* an Update with the variants vs populated
Update(id, vs) == [nil |-> FALSE, UpdateID |-> id, variants |-> vs]

\* the pair a function returns
Pair(update, err) == [update |-> update, err |-> err]

\* s.convertWebhookEventToUpdate
ConvertWebhookEventToUpdate(event) ==
    LET updateID == IF event.timestamp = 0 THEN 1 ELSE event.timestamp
    IN  IF event.event_name \in MessageEvents
        THEN IF ~event.dataOk
             THEN Pair(NilUpdate, "failed to parse message event")
             ELSE Pair(Update(updateID, {"message"}), "nil")
        ELSE IF event.event_name \in PostbackEvents
        THEN IF ~event.dataOk
             THEN Pair(NilUpdate, "failed to parse postback event")
             ELSE Pair(Update(updateID, {"postback"}), "nil")
        ELSE IF event.event_name \in UserActionEvents
        THEN IF ~event.dataOk
             THEN Pair(NilUpdate, "failed to parse user action event")
             ELSE Pair(Update(updateID, {"user_action"}), "nil")
        ELSE Pair(NilUpdate, "unsupported event type")

\* slip: a decoded Update is returned whatever its update_id
ParseUpdate_AnyId(payload) ==
    IF payload.kind = "empty" THEN Pair(NilUpdate, "empty webhook payload")
    ELSE IF payload.kind = "object" /\ payload.event_name = ""
    THEN Pair(Update(payload.update_id, payload.variants), "nil")
    ELSE IF payload.kind # "object"
    THEN Pair(NilUpdate, "failed to parse webhook payload")
    ELSE ConvertWebhookEventToUpdate(payload)

\* s.ParseUpdate: the payload decoded as an Update is returned as it is when
\* its update_id is not 0
ParseUpdate(payload) ==
    IF payload.kind = "empty" THEN Pair(NilUpdate, "empty webhook payload")
    ELSE IF payload.kind = "object" /\ payload.update_id # 0
    THEN Pair(Update(payload.update_id, payload.variants), "nil")
    ELSE IF payload.kind # "object"
    THEN Pair(NilUpdate, "failed to parse webhook payload")
    ELSE ConvertWebhookEventToUpdate(payload)

\* ---- webhook: the service ---------------------------------------------------

\* utils.ValidateWebhookSignature is called with the request and the secret
CallValidateWebhookSignature ==
    /\ wh.pc = "idle"
    /\ ret' = [fn |-> "ValidateWebhookSignature", arg |-> 0,
               out |-> ValidateWebhookSignature(wh.payload, wh.signature,
                                                secretToken)]
    /\ UNCHANGED <<botVars, whVars, retryConfig, dr, retries>>

\* s.ParseUpdate is called with the payload of the request
CallParseUpdate ==
    /\ wh.pc = "idle"
    /\ ret' = [fn |-> "ParseUpdate", arg |-> 0, out |-> ParseUpdate(wh.payload)]
    /\ UNCHANGED <<botVars, whVars, retryConfig, dr, retries>>

\* s.ProcessWebhook is called with the request
ProcessWebhook ==
    /\ wh.pc = "idle"
    /\ IF ValidateSignature(wh.payload, wh.signature) # "nil"
       THEN wh' = [wh EXCEPT !.pc = "returned", !.update = NilUpdate,
                             !.err = "webhook request rejected"]
       ELSE LET p == ParseUpdate(wh.payload)
            IN  IF p.err # "nil"
                THEN wh' = [wh EXCEPT !.pc = "returned", !.parsed = TRUE,
                                      !.update = NilUpdate,
                                      !.err = "failed to parse webhook update"]
                ELSE wh' = [wh EXCEPT !.pc = "returned", !.parsed = TRUE,
                                      !.update = p.update, !.err = "nil"]
    /\ UNCHANGED <<botVars, reqVars, secretToken>>

\* a webhook service with any secret token, and a request with any payload and
\* signature that has arrived
WebhookInit ==
    /\ NewBot
    /\ retryConfig = DefaultRetryConfig
    /\ retries = ConfigRetries
    /\ ret = NoRet
    /\ dr = NoRequest
    /\ secretToken \in Secrets
    /\ \E payload \in Payloads, signature \in Signatures :
          wh = [NoProcess EXCEPT !.payload = payload, !.signature = signature]

WebhookNext ==
    \/ CallValidateWebhookSignature
    \/ CallParseUpdate
    \/ ProcessWebhook

WebhookSpec == WebhookInit /\ [][WebhookNext]_vars

\* ---- claims ---------------------------------------------------------------

\* loop l is inside the for loop of pollUpdates (or about to enter it)
Active(l) == loops[l].pc \in {"spawned", "select", "request", "publish",
                              "errwait", "emptywait"}

\* the loop that was polling when caller c made its present or last call of
\* StopPolling or Close has returned after closing its channel
TargetDone(c) ==
    LET l == callers[c].val
    IN  IF l = 0 THEN FALSE
        ELSE loops[l].pc = "done" /\ chanClosed[loops[l].ch]

\* C1: after StopPolling is called on a polling client, the loop exits (channel
\* closed, isPolling false) and StopPolling returns
C1_StopPollingReturns ==
    (callers[1].pc = "stopwait" /\ callers[1].val # 0)
        ~> (/\ callers[1].pc = "stopped"
            /\ ~isPolling
            /\ TargetDone(1))

\* C7: Close on a polling client returns, and then the loop has stopped
\* (isPolling false, channel closed) and the client context is cancelled
C7_CloseReturns ==
    (callers[1].pc = "closewait" /\ callers[1].val # 0)
        ~> (/\ callers[1].pc = "closed"
            /\ ~isPolling
            /\ TargetDone(1)
            /\ ctxDone)

\* C2: at most one pollUpdates loop is active per BotAPI at any time
C2_AtMostOneLoop == Cardinality({l \in Loops : Active(l)}) <= 1

\* two callers have each called GetUpdatesChan and one loop serves both
C2_Witness ==
    /\ callers[1].pc = "got" /\ callers[2].pc = "got"
    /\ nLoops = 1
    /\ Active(1)

\* C3: GetUpdatesChan on a polling engine returns the channel that the call
\* which started the loop returned, and starts no loop
C3_SameChannel ==
    [][(isPolling /\ updatesChan # 0) =>
          /\ nLoops' = nLoops
          /\ \A c \in Callers :
                (callers'[c] # callers[c] /\ callers'[c].pc = "got")
                    => callers'[c].val = loops[nLoops].ch]_vars

\* a second caller got the channel of the loop that is already past its start
C3_Witness ==
    /\ callers[1].pc = "got" /\ callers[2].pc = "got"
    /\ callers[1].val = callers[2].val
    /\ isPolling
    /\ nLoops = 1 /\ loops[1].pc = "request"

\* C4: when StopPolling returns, isPolling is false and the loop that was
\* polling when it was called has returned with its channel closed; from then
\* on isPolling is true only for a loop started later
C4_StoppedMeansExited ==
    /\ [][\A c \in Callers :
            (/\ callers[c].pc \in {"stopwait", "closewait"}
             /\ callers'[c].pc \in {"stopped", "cancel"})
                => /\ ~isPolling
                   /\ callers[c].val # 0 => TargetDone(c)]_vars
    /\ [](\A c \in Callers :
            (callers[c].pc \in {"stopped", "cancel", "closed"} /\ callers[c].val # 0)
                => /\ TargetDone(c)
                   /\ isPolling => nLoops > callers[c].val)

\* StopPolling has returned from stopping a loop
C4_Witness ==
    \E c \in Callers : callers[c].pc = "stopped" /\ callers[c].val # 0 /\ ~isPolling

\* C5: an updates channel is closed once, by its own loop as the loop leaves,
\* and no update is sent on a closed channel
C5_ClosedOnceByLoop ==
    /\ [](panicked \notin {"close of closed updates channel",
                          "send on closed channel"})
    /\ [](\A l \in Loops : loops[l].pc \in {"exited", "done"}
                              => chanClosed[loops[l].ch])
    /\ [][\A ch \in Loops :
            (chanClosed'[ch] /\ ~chanClosed[ch]) =>
                \E l \in Loops : /\ loops[l].ch = ch
                                 /\ Active(l)
                                 /\ loops'[l].pc = "exited"]_vars

\* a loop left in the middle of a batch while a caller waits in StopPolling
C5_Witness ==
    \E l \in Loops, c \in Callers :
        /\ loops[l].pc = "exited" /\ loops[l].from = "publish"
        /\ callers[c].pc = "stopwait" /\ callers[c].val = l
        /\ chanClosed[loops[l].ch]

C8_CancelSeenWhileSuspended ==
    \A l \in Loops :
        (loops[l].pc \in {"publish", "errwait", "emptywait"} /\ PollCtxDone(l))
            ~> (loops[l].pc \in {"exited", "done"} /\ chanClosed[loops[l].ch])

\* a loop has left from a publish on a full channel
C8_Witness ==
    \E l \in Loops :
        /\ loops[l].pc = "exited" /\ loops[l].from = "publish"
        /\ Len(chanBuf[loops[l].ch]) = ChanCap

\* largest id of a non-empty batch
RECURSIVE MaxIdOf(_)
MaxIdOf(batch) ==
    IF Len(batch) = 1 THEN batch[1] ELSE Max(batch[1], MaxIdOf(Tail(batch)))

\* the range over the batch of loop l is complete
BatchPublished(l) ==
    /\ loops[l].pc \in {"select", "request", "errwait", "emptywait", "publish"}
    /\ Len(loops[l].updates) > 0
    /\ loops[l].i = Len(loops[l].updates) + 1

\* C9: the offset of a loop never decreases, and when a batch is published it
\* is max(offset before the batch, largest id of the batch + 1)
C9_OffsetAdvance ==
    /\ [](\A l \in Loops :
            BatchPublished(l) =>
                loops[l].offset = Max(loops[l].reqOffset,
                                      MaxIdOf(loops[l].updates) + 1))
    /\ [][\A l \in Loops :
            loops[l].pc \notin {"none", "spawned"}
                => loops'[l].offset >= loops[l].offset]_vars

\* the batch [3,5,5,7] fetched at offset 0 is published and the offset is 8
C9_Witness ==
    \E l \in Loops :
        /\ BatchPublished(l)
        /\ loops[l].updates = ExampleBatch
        /\ loops[l].reqOffset = 0
        /\ loops[l].offset = 8

\* C10: a request that fails for another reason than cancellation leaves the
\* offset as it is, and the next request is sent after a poll interval with
\* the offset of the failed one
C10_RetrySameOffset ==
    [][\A l \in Loops :
          /\ (loops[l].pc = "request" /\ loops'[l].pc = "errwait")
                => loops'[l].offset = loops[l].reqOffset
          /\ (loops[l].prevFailed /\ loops[l].pc # "request"
                                  /\ loops'[l].pc = "request")
                => /\ loops[l].waited
                   /\ loops'[l].reqOffset = loops[l].reqOffset]_vars

\* the request after a failed request at a non-zero offset is in flight
C10_Witness ==
    \E l \in Loops :
        /\ loops[l].pc = "request"
        /\ loops[l].prevFailed /\ loops[l].waited
        /\ loops[l].reqOffset = 8

\* loop l sends update loops[l].updates[loops[l].i] in this step
PublishStep(l) == loops[l].pc = "publish" /\ loops'[l].i = loops[l].i + 1

\* C11: the updates a loop sends on its channel have non-decreasing ids, for
\* every sequence of batches the server returns: each id sent is at least the
\* largest id sent before it
C11_PublishedInOrder ==
    [][\A l \in Loops :
          PublishStep(l) => loops[l].updates[loops[l].i] >= loops[l].maxPub]_vars

\* C12: a loop sends every update of a fetched batch, in batch order, before
\* its next request, unless it is cancelled; it sends only when the channel has
\* room and otherwise stays where it is; and the offset of a request is above
\* every id sent so far
C12_BatchPublishedBeforeNextRequest ==
    /\ [](\A l \in Loops :
            loops[l].pc = "request" => loops[l].reqOffset > loops[l].maxPub)
    /\ [][\A l \in Loops :
            /\ (loops[l].pc = "select" /\ loops'[l].pc = "request")
                  => \/ Len(loops[l].updates) = 0
                     \/ loops[l].i = Len(loops[l].updates) + 1
            /\ (/\ loops[l].pc = "publish"
                /\ <<loops'[l].pc, loops'[l].i>> # <<loops[l].pc, loops[l].i>>)
                  => \/ /\ PublishStep(l)
                        /\ loops'[l].updates = loops[l].updates
                        /\ Len(chanBuf[loops[l].ch]) < ChanCap
                        /\ chanBuf'[loops[l].ch] =
                              Append(chanBuf[loops[l].ch],
                                     loops[l].updates[loops[l].i])
                        /\ loops'[l].pc = "publish"
                              <=> loops[l].i < Len(loops[l].updates)
                     \/ /\ loops'[l].pc = "exited"
                        /\ PollCtxDone(l)]_vars

\* the request after a published batch is in flight, and the channel is full
C12_Witness ==
    \E l \in Loops :
        /\ loops[l].pc = "request"
        /\ loops[l].maxPub = 2
        /\ loops[l].reqOffset = 3
        /\ Len(chanBuf[loops[l].ch]) = ChanCap

\* C13: a loop leaves, and its channel is closed, only when its polling context
\* is cancelled; a failed request of a loop that is not cancelled leads to the
\* poll-interval wait; and the step in which the loop leaves sends nothing on
\* the channel
C13_ExitOnlyOnCancel ==
    [][\A l \in Loops :
          /\ (Active(l) /\ loops'[l].pc \in {"exited", "done"})
                => /\ PollCtxDone(l)
                   /\ chanBuf' = chanBuf
          /\ (loops[l].ch # 0 /\ ~chanClosed[loops[l].ch]
                              /\ chanClosed'[loops[l].ch])
                => PollCtxDone(l)
          /\ (/\ loops[l].pc = "request"
              /\ loops'[l].pc \notin {"request", "publish", "select", "emptywait"})
                => \/ PollCtxDone(l)
                   \/ loops'[l].pc = "errwait" /\ isPolling'
                                               /\ chanClosed' = chanClosed]_vars

\* a request has failed after updates were sent, and the loop goes on polling
C13_Witness ==
    \E l \in Loops :
        /\ loops[l].pc = "errwait"
        /\ loops[l].maxPub >= 0
        /\ ~PollCtxDone(l)
        /\ isPolling
        /\ ~chanClosed[loops[l].ch]

\* the one caller is inside a StopPolling (or Close) that found loop l polling
\* and closed the stop channel
StopSignalledFor(l) ==
    callers[1].pc \in {"stopwait", "closewait"} /\ callers[1].val = l

\* C14: once StopPolling has closed the stop channel the loop issues no new
\* request, and a request in flight then ends with the loop leaving
C14_StopEndsRequests ==
    /\ [][\A l \in Loops :
            StopSignalledFor(l)
                => ~(loops[l].pc = "select" /\ loops'[l].pc = "request")]_vars
    /\ \A l \in Loops :
          (StopSignalledFor(l) /\ loops[l].pc = "request")
              ~> (loops[l].pc \in {"exited", "done"})

\* C15: NextDelay(n) is at most MaxDelay for every RetryConfig and every
\* n >= 0, and NextDelay(n) <= NextDelay(n+1) while NextDelay(n) is below
\* MaxDelay
C15_DelayBoundedMonotone ==
    ret.fn = "NextDelay" =>
        /\ ret.out <= retryConfig.MaxDelay
        /\ ret.out < retryConfig.MaxDelay
              => ret.out <= NextDelay(retryConfig, ret.arg + 1)

\* C16: NextDelay(n) is min(InitialDelay * BackoffFactor^n, MaxDelay), with
\* NextDelay(0) = InitialDelay, and it stays at MaxDelay after the product has
\* reached MaxDelay (the product is p/q)
C16_DelayFormula ==
    ret.fn = "NextDelay" =>
        LET n == ret.arg
            p == retryConfig.InitialDelay * Pow(retryConfig.BackoffFactor.num, n)
            q == Pow(retryConfig.BackoffFactor.den, n)
        IN  /\ IF p <= retryConfig.MaxDelay * q
               THEN ret.out * q = p
               ELSE ret.out = retryConfig.MaxDelay
            /\ n = 0 => ret.out = retryConfig.InitialDelay
            /\ p >= retryConfig.MaxDelay * q
                  => NextDelay(retryConfig, n + 1) = retryConfig.MaxDelay

\* e is a *ZaloBotError of kind auth or validation
AuthOrValidation(e) ==
    e.kind = "zalo" /\ e.Type \in {ErrorTypeAuth, ErrorTypeValidation}

DefaultRetries ==
    (retryConfig = DefaultRetryConfig /\ ret.arg.kind = "zalo") =>
        /\ ret.arg.Type \in {ErrorTypeNetwork, ErrorTypeRateLimit} => ret.out = TRUE
        /\ (ret.arg.Type = ErrorTypeAPI /\ ret.arg.Code \in 500..599)
              => ret.out = TRUE
        /\ (ret.arg.Type = ErrorTypeAPI /\ ret.arg.Code \in 400..499)
              => ret.out = FALSE

\* C18 as stated: ShouldRetry(err) is true exactly when err is not a
\* ZaloBotError, or its kind is in RetryableErrors, or it is an API error with
\* a code in 500..599
C18_RetriedExactlyWhen ==
    ret.fn = "ShouldRetry" =>
        /\ ret.out <=> \/ ret.arg.kind # "zalo"
                       \/ ret.arg.Type \in retryConfig.RetryableErrors
                       \/ ret.arg.Type = ErrorTypeAPI /\ ret.arg.Code \in 500..599
        /\ DefaultRetries

\* C18: ShouldRetry(err) is true exactly when err is not a ZaloBotError, or its
\* kind is in RetryableErrors, or its kind is network or rate-limit, or it is
\* an API error with a code in 500..599
C18_RetriedExactlyWhenOrTransient ==
    ret.fn = "ShouldRetry" =>
        /\ ret.out <=> \/ ret.arg.kind # "zalo"
                       \/ ret.arg.Type \in retryConfig.RetryableErrors
                       \/ ret.arg.Type \in {ErrorTypeNetwork, ErrorTypeRateLimit}
                       \/ ret.arg.Type = ErrorTypeAPI /\ ret.arg.Code \in 500..599
        /\ DefaultRetries

\* ShouldRetry has answered true for a network error that is not configured
C18_Witness ==
    /\ ret.fn = "ShouldRetry"
    /\ ret.arg = NewNetworkError
    /\ retryConfig.RetryableErrors = {}
    /\ ret.out = TRUE

\* C19: DoRequest makes at most MaxRetries + 1 attempts and returns; a success
\* is returned by the attempt that got it, after as many attempts as there
\* were failures before it plus one; and nothing happens after the return
C19_DoRequestTerminates ==
    /\ [](dr.attempts <= retryConfig.MaxRetries + 1)
    /\ []((dr.pc = "returned" /\ dr.resp = "resp")
            => /\ dr.err = NilError
               /\ dr.attempts = dr.attempt + 1
               /\ dr.attempt <= retryConfig.MaxRetries)
    /\ []((dr.attempts > 0 /\ dr.resp = "nil") => dr.lastErr # NilError)
    /\ [][dr.pc = "returned" => dr' = dr]_vars
    /\ (dr.pc \in {"head", "wait", "execute"}) ~> (dr.pc = "returned")

\* the last attempt allowed succeeded after MaxRetries retryable failures
C19_Witness ==
    /\ dr.pc = "returned"
    /\ dr.resp = "resp"
    /\ retryConfig.MaxRetries = RetriesBound
    /\ dr.attempts = RetriesBound + 1

\* C20: DoRequest never returns a nil response with a nil error, and when it
\* returns no response the error is that of the last attempt
C20_NeverNilNil ==
    dr.pc = "returned" =>
        /\ ~(dr.resp = "nil" /\ dr.err = NilError)
        /\ dr.resp = "nil" => dr.err = dr.lastErr


\* C21: when a request is answered 429 with Retry-After: s and the next attempt
\* is made, that attempt starts no sooner than s seconds after the response:
\* the backoff delay DoRequest waited is at least s
C21_RetryAfterIsFloor ==
    (dr.pc = "execute" /\ dr.attempts = 1 /\ dr.retryAfter > 0)
        => dr.delay >= dr.retryAfter


\* the exact product InitialDelay * BackoffFactor^n, as a fraction
Product(rc, n) == [num |-> rc.InitialDelay * Pow(rc.BackoffFactor.num, n),
                   den |-> Pow(rc.BackoffFactor.den, n)]

\* d is the fraction p cut to a whole duration, or MaxDelay when that is more
\* than MaxDelay
CappedAt(rc, p, d) ==
    IF p.num >= (rc.MaxDelay + 1) * p.den
    THEN d = rc.MaxDelay
    ELSE d * p.den <= p.num /\ p.num < (d + 1) * p.den

\* C22 as stated: the first attempt is made without delay, and the delay before
\* the r-th retry is min(InitialDelay * BackoffFactor^(r-1), MaxDelay): the
\* first retry waits InitialDelay unmodified
C22_DelayFromInitial ==
    /\ (dr.pc = "execute" /\ dr.attempts = 0) => dr.delay = 0
    /\ dr.pc = "wait" =>
          /\ dr.attempt >= 1
          /\ CappedAt(retryConfig, Product(retryConfig, dr.attempt - 1),
                      dr.delay)

\* C22 amended: the first attempt is made without delay, and the delay before
\* the r-th retry is min(InitialDelay * BackoffFactor^r, MaxDelay): the first
\* retry already waits InitialDelay * BackoffFactor
C22_DelayFromFirstPower ==
    /\ (dr.pc = "execute" /\ dr.attempts = 0) => dr.delay = 0
    /\ dr.pc = "wait" =>
          /\ dr.attempt >= 1
          /\ dr.attempt = dr.attempts
          /\ CappedAt(retryConfig, Product(retryConfig, dr.attempt), dr.delay)

\* DoRequest waits before its second retry, and InitialDelay 1 doubled twice
\* is cut to the MaxDelay 3
C22_Witness ==
    /\ dr.pc = "wait"
    /\ dr.attempt = 2
    /\ retryConfig.InitialDelay = 1
    /\ retryConfig.BackoffFactor = [num |-> 2, den |-> 1]
    /\ retryConfig.MaxDelay = 3
    /\ dr.delay = 3


C24_RejectedErrorReturned ==
    (dr.attempts > 0 /\ dr.lastErr # NilError
                     /\ ~ShouldRetry(retryConfig, dr.lastErr))
        => /\ dr.pc = "returned"
           /\ dr.err = dr.lastErr
           /\ dr.resp = "nil"
           /\ dr.delay = 0 \/ dr.attempts > 1

\* DoRequest has returned a 400 API error after one attempt although
\* MaxRetries retries were allowed
C24_Witness ==
    /\ dr.pc = "returned"
    /\ dr.attempts = 1
    /\ dr.err = NewAPIError(400)
    /\ ~ShouldRetry(retryConfig, dr.err)
    /\ retryConfig.MaxRetries = RetriesBound


\* C25: DoRequest makes at most Config.Retries retries, so at most
\* Config.Retries + 1 attempts, and none after the first when Retries is 0
C25_RetriesBoundsAttempts == dr.attempts <= retries + 1


\* C26: executeRequest gives a network error when the request could not be
\* made or its response not read, a rate-limit error on status 429 and an auth
\* error on status 401 or 403, whatever the body of the response holds
C26_ClassifiedByStatus ==
    ret.fn = "executeRequest" =>
        LET r == ret.arg
            e == ret.out
        IN  /\ r.stage \in {"newrequest", "do", "read"}
                  => e.kind = "zalo" /\ e.Type = ErrorTypeNetwork
            /\ (r.stage = "http" /\ r.status = 429)
                  => e.kind = "zalo" /\ e.Type = ErrorTypeRateLimit
            /\ (r.stage = "http" /\ r.status \in {401, 403})
                  => e.kind = "zalo" /\ e.Type = ErrorTypeAuth

\* a 429 response whose body reports error_code 401 was classified as a
\* rate-limit error
C26_Witness ==
    /\ ret.fn = "executeRequest"
    /\ ret.arg.stage = "http"
    /\ ret.arg.status = 429
    /\ ret.arg.body = [kind |-> "json", OK |-> FALSE, ErrorCode |-> 401]
    /\ ret.out = NewRateLimitError


\* the string s holds nothing but white space (the empty string too)
Blank(s) == \A i \in 1..Len(s) : s[i] = " "

\* the signature of the request is the digest of its payload under the secret
Genuine == wh.signature = Digest(secretToken, wh.payload)

\* C27 as stated: ValidateWebhookSignature answers by the first condition that
\* holds of: payload empty, signature empty, secret empty, signature not the
\* digest; and nil when none holds
C27_FirstEmptyDecides ==
    ret.fn = "ValidateWebhookSignature" =>
        ret.out = IF wh.payload.kind = "empty" THEN "ErrEmptyPayload"
                  ELSE IF wh.signature = <<>> THEN "ErrEmptySignature"
                  ELSE IF secretToken = <<>> THEN "ErrEmptySecret"
                  ELSE IF ~Genuine THEN "ErrInvalidSignature"
                  ELSE "nil"

\* C27 amended: ValidateWebhookSignature answers by the first condition that
\* holds of: payload empty, signature blank, secret blank, signature not the
\* digest; and nil when none holds
C27_FirstBlankDecides ==
    ret.fn = "ValidateWebhookSignature" =>
        ret.out = IF wh.payload.kind = "empty" THEN "ErrEmptyPayload"
                  ELSE IF Blank(wh.signature) THEN "ErrEmptySignature"
                  ELSE IF Blank(secretToken) THEN "ErrEmptySecret"
                  ELSE IF ~Genuine THEN "ErrInvalidSignature"
                  ELSE "nil"

\* a request with a payload and a blank signature was validated by a service
\* without secret: the signature decided
C27_Witness ==
    /\ ret.fn = "ValidateWebhookSignature"
    /\ wh.payload.kind = "object"
    /\ wh.signature = <<" ">>
    /\ secretToken = <<>>
    /\ ret.out = "ErrEmptySignature"

\* C28 as stated: with a non-empty payload and a non-empty secret, validation
\* succeeds when the signature is the digest and fails with
\* ErrInvalidSignature for every other non-empty signature
C28_DigestOrInvalid ==
    (/\ ret.fn = "ValidateWebhookSignature"
     /\ wh.payload.kind # "empty"
     /\ secretToken # <<>>
     /\ wh.signature # <<>>)
        => ret.out = IF Genuine THEN "nil" ELSE "ErrInvalidSignature"

\* C28 amended: with a non-empty payload and a secret that is not blank,
\* validation succeeds when the signature is the digest and fails with
\* ErrInvalidSignature for every other signature that is not blank
C28_DigestOrInvalidUnlessBlank ==
    (/\ ret.fn = "ValidateWebhookSignature"
     /\ wh.payload.kind # "empty"
     /\ ~Blank(secretToken)
     /\ ~Blank(wh.signature))
        => ret.out = IF Genuine THEN "nil" ELSE "ErrInvalidSignature"

\* a signature that differs from the digest in its last character only was
\* refused as invalid
C28_Witness ==
    /\ ret.fn = "ValidateWebhookSignature"
    /\ wh.payload.kind = "object"
    /\ ~Blank(secretToken)
    /\ Len(wh.signature) = 2
    /\ wh.signature[1] = Digest(secretToken, wh.payload)[1]
    /\ wh.signature[2] \in {"a", "b"}
    /\ wh.signature[2] # Digest(secretToken, wh.payload)[2]
    /\ ret.out = "ErrInvalidSignature"

\* C29: ProcessWebhook returns an Update only for a request whose signature is
\* the digest of its payload under a configured secret; for every other
\* request it returns a nil Update and an error and has not called ParseUpdate
C29_UpdateOnlyIfValidated ==
    wh.pc = "returned" =>
        /\ ~wh.update.nil => Genuine /\ ~Blank(secretToken)
        /\ (~Genuine \/ Blank(secretToken) \/ wh.payload.kind = "empty")
              => wh.update = NilUpdate /\ wh.err # "nil" /\ ~wh.parsed

\* ProcessWebhook has rejected a well-formed update whose signature differs
\* from the digest
C29_Witness ==
    /\ wh.pc = "returned"
    /\ wh.payload.kind = "object" /\ wh.payload.update_id = 1
    /\ ~Blank(secretToken)
    /\ ~Blank(wh.signature)
    /\ ~Genuine
    /\ wh.update = NilUpdate
    /\ wh.err = "webhook request rejected"
    /\ ~wh.parsed

\* C30: an Update that ParseUpdate or ProcessWebhook returns has at most one
\* of Message, PostbackEvent and UserAction populated
C30_AtMostOneVariant ==
    /\ ret.fn = "ParseUpdate" => Cardinality(ret.out.update.variants) <= 1
    /\ wh.pc = "returned" => Cardinality(wh.update.variants) <= 1


\* C31: a poll cycle is treated as failed (the loop goes to its wait of one
\* interval) only after the request executor has made the attempts for the
\* fetch: DoRequest has returned an error, having used up its retries or met
\* an error that is not retried
C31_FetchThroughExecutor ==
    [][\A l \in Loops :
          (loops[l].pc = "request" /\ loops'[l].pc = "errwait")
              => /\ dr.pc = "returned"
                 /\ dr.err # NilError
                 /\ \/ dr.attempts > retryConfig.MaxRetries
                    \/ ~ShouldRetry(retryConfig, dr.err)]_vars


\* the error an envelope with ok = false and this error_code stands for
FromEnvelope(code) ==
    IF code = 429 THEN ZaloBotError(ErrorTypeRateLimit, 429)
    ELSE IF code \in {401, 403} THEN ZaloBotError(ErrorTypeAuth, 401)
    ELSE ZaloBotError(ErrorTypeAPI, code)

\* what DoRequest does with the error lastErr of its last attempt: an error
\* that ShouldRetry rejects is returned at once, one that it accepts is
\* returned only when the retries are used up or ctx was cancelled in the wait
TreatedByShouldRetry ==
    IF ~ShouldRetry(retryConfig, dr.lastErr)
    THEN dr.pc = "returned" /\ dr.err = dr.lastErr
    ELSE dr.pc = "returned"
            => \/ dr.err = dr.lastErr /\ dr.attempts > retryConfig.MaxRetries
               \/ dr.err = NewNetworkError /\ dr.ctxDone

\* C32 as stated: for a response whose body decodes to an envelope with
\* ok = false, executeRequest returns the error of the envelope's error_code
\* (429 rate-limit, 401 and 403 auth, else an API error with that code), and
\* DoRequest treats an error taken from an envelope by ShouldRetry
C32_ClassifiedFromEnvelope ==
    /\ (/\ ret.fn = "executeRequest"
        /\ ret.arg.stage = "http"
        /\ ret.arg.body.kind = "json"
        /\ ~ret.arg.body.OK)
           => ret.out = FromEnvelope(ret.arg.body.ErrorCode)
    /\ dr.envCode # -1
           => dr.lastErr = FromEnvelope(dr.envCode) /\ TreatedByShouldRetry

\* C32 amended: the same for a response whose status is none of 429, 401, 403
C32_ClassifiedFromEnvelopeUnlessStatus ==
    /\ (/\ ret.fn = "executeRequest"
        /\ ret.arg.stage = "http"
        /\ ret.arg.status \notin {429, 401, 403}
        /\ ret.arg.body.kind = "json"
        /\ ~ret.arg.body.OK)
           => ret.out = FromEnvelope(ret.arg.body.ErrorCode)
    /\ dr.envCode # -1
           => dr.lastErr = FromEnvelope(dr.envCode) /\ TreatedByShouldRetry

\* DoRequest waits to retry after a 200 response whose envelope reported
\* error_code 429
C32_Witness ==
    /\ dr.pc = "wait"
    /\ dr.attempts = 1
    /\ dr.envCode = 429
    /\ dr.retryAfter = 0
    /\ dr.lastErr = NewRateLimitError


\* C33: ParseUpdate returns a payload as the Update it decodes to exactly when
\* its update_id is not 0; every Update it returns has an UpdateID other than
\* 0; a payload with update_id 0 is rejected or converted as a push event,
\* with the id of its timestamp (1 for timestamp 0) and one variant
C33_DirectIffNonZeroId ==
    ret.fn = "ParseUpdate" =>
        LET payload == wh.payload
            out == ret.out
        IN  /\ ~out.update.nil => out.update.UpdateID # 0 /\ out.err = "nil"
            /\ (payload.kind = "object" /\ payload.update_id # 0)
                  => out.update = Update(payload.update_id, payload.variants)
            /\ (payload.kind = "object" /\ payload.update_id = 0)
                  => \/ out.update.nil /\ out.err # "nil"
                     \/ /\ payload.event_name # ""
                        /\ out.update.UpdateID \in {1, payload.timestamp}
                        /\ Cardinality(out.update.variants) = 1
            /\ payload.kind # "object" => out.update.nil /\ out.err # "nil"

\* an Update with update_id 0 and a message was not returned as an Update
C33_Witness ==
    /\ ret.fn = "ParseUpdate"
    /\ wh.payload.kind = "object"
    /\ wh.payload.update_id = 0
    /\ wh.payload.variants = {"message"}
    /\ ret.out.update.nil
    /\ ret.out.err = "unsupported event type"


\* C34: outside the critical sections isPolling is true exactly when
\* updatesChan is not nil, a non-nil updatesChan is an open channel, and the
\* two fields change only when a loop is started or a loop leaves (StopPolling
\* and Close change neither)
C34_PollingIffChannel ==
    /\ [](isPolling <=> updatesChan # 0)
    /\ [](updatesChan # 0 => ~chanClosed[updatesChan])
    /\ [][(isPolling' # isPolling \/ updatesChan' # updatesChan)
            => \/ nLoops' = nLoops + 1 /\ isPolling' /\ updatesChan' # 0
               \/ \E l \in Loops : /\ Active(l)
                                   /\ loops'[l].pc = "exited"
                                   /\ ~isPolling' /\ updatesChan' = 0
                                   /\ chanClosed'[updatesChan]]_vars

\* a caller has closed the stop signal and waits in StopPolling; the client
\* is still polling on its open channel
C34_Witness ==
    \E c \in Callers :
        /\ callers[c].pc = "stopwait"
        /\ callers[c].val # 0
        /\ stopPollingCh = 0
        /\ isPolling
        /\ updatesChan # 0
        /\ ~chanClosed[updatesChan]


\* C35: when the caller's last call was a StopPolling that has returned and
\* the client was not closed, its next GetUpdatesChan starts exactly one loop,
\* on a channel that was made by this call, is open and is the channel of no
\* earlier loop, and with a stop channel made by this call that is not closed
C35_RestartIsFresh ==
    [][(callers[1].pc = "stopped" /\ ~ctxDone /\ callers'[1].pc = "got")
          => /\ nLoops' = nLoops + 1
             /\ pollingWg = 0 /\ pollingWg' = 1
             /\ isPolling'
             /\ loops'[nLoops'].pc = "spawned"
             /\ nChans' = nChans + 1
             /\ updatesChan' = nChans'
             /\ callers'[1].val = updatesChan'
             /\ loops'[nLoops'].ch = updatesChan'
             /\ ~chanClosed'[updatesChan']
             /\ \A l \in 1..nLoops : loops[l].ch # updatesChan'
             /\ nStops' = nStops + 1
             /\ stopPollingCh' = nStops'
             /\ ~stopClosed'[stopPollingCh']]_vars

\* a second start/stop cycle is complete: the loop started after a StopPolling
\* had returned was stopped by a later StopPolling, which has returned
C35_Witness ==
    /\ callers[1].pc = "stopped"
    /\ callers[1].val = 2
    /\ ~ctxDone
    /\ loops[1].pc = "done" /\ loops[2].pc = "done"
    /\ loops[1].ch # loops[2].ch
    /\ chanClosed[loops[1].ch] /\ chanClosed[loops[2].ch]
    /\ stopClosed[1] /\ stopClosed[2]
    /\ ~isPolling


\* C36: a GetUpdatesChan that returns without starting a loop returns the
\* channel of a running loop that has not been told to stop: never the channel
\* of a loop whose stop signal is closed or whose poll context is cancelled,
\* which that loop closes at its exit, leaving the client idle
C36_ReturnedChannelIsServed ==
    [][\A c \in Callers :
          (callers'[c] # callers[c] /\ callers'[c].pc = "got" /\ nLoops' = nLoops)
              => \E l \in Loops :
                    /\ Active(l)
                    /\ loops[l].ch = callers'[c].val
                    /\ ~StopSignalled(l)
                    /\ ~loops[l].pollCancelled]_vars


\* C37: a GetUpdatesChan called after Close has returned starts a loop on a
\* new, empty channel; while the client context is done a loop that has not
\* yet passed its first select issues no request and nothing is published on
\* its channel; and the channel that was returned is eventually closed, with
\* the client idle
C37_ChannelClosedAfterClose ==
    /\ [][(callers[1].pc = "closed" /\ callers'[1].pc = "got")
             => /\ ctxDone
                /\ nLoops' = nLoops + 1
                /\ loops'[nLoops'].pc = "spawned"
                /\ loops'[nLoops'].ch = callers'[1].val
                /\ chanBuf[callers'[1].val] = <<>>
                /\ ~chanClosed[callers'[1].val]]_vars
    /\ [][\A l \in Loops :
             (ctxDone /\ loops[l].pc \in {"spawned", "select"})
                 => /\ loops'[l].pc \in {"spawned", "select", "exited"}
                    /\ chanBuf'[loops[l].ch] = chanBuf[loops[l].ch]]_vars
    /\ \A ch \in Loops :
          (callers[1].pc = "got" /\ callers[1].val = ch /\ ctxDone)
              ~> (chanClosed[ch] /\ ~isPolling /\ updatesChan = 0)

\* the loop started after Close has exited from its first select and closed
\* the channel the caller holds
C37_Witness ==
    /\ ctxDone
    /\ callers[1].pc = "got"
    /\ callers[1].val = loops[nLoops].ch
    /\ loops[nLoops].pc = "done"
    /\ chanClosed[callers[1].val]
    /\ chanBuf[callers[1].val] = <<>>
    /\ ~isPolling


\* C38: every request a loop sends before it has published anything, its
\* first request among them, carries the Offset of the UpdateConfig that was
\* passed to the GetUpdatesChan call that started the loop, whatever offset an
\* earlier loop had reached
C38_FirstRequestUsesConfigOffset ==
    \A l \in Loops, o \in ConfigOffsets :
        []((loops[l].pc = "spawned" /\ loops[l].cfgOffset = o)
              => [](loops[l].pc = "request" /\ loops[l].maxPub = -1
                       => loops[l].reqOffset = o))

\* the first loop published update 0 and reached offset 1; the second loop,
\* started with Offset 0, requested from 0 and published update 0 again
C38_Witness ==
    /\ loops[1].pc = "done"
    /\ loops[1].offset = 1
    /\ loops[2].pc = "select"
    /\ loops[2].reqOffset = 0
    /\ loops[2].maxPub = 0
    /\ chanBuf[loops[2].ch] = <<0>>


\* C39: for every RetryConfig and every attempt index n >= 0,
\* calculateBackoffDelay(n, cfg) returns what cfg.NextDelay(n) returns
C39_BackoffsAgree ==
    ret.fn = "calculateBackoffDelay"
        => ret.out = NextDelay(retryConfig, ret.arg)


\* C40: when DoRequest has returned a response and a nil error, the HTTP
\* response of the attempt that produced it had a 2xx status and an envelope
\* with ok = true
C40_SuccessIs2xxAndOk ==
    (dr.pc = "returned" /\ dr.resp = "resp" /\ dr.err = NilError)
        => dr.status \in 200..299 /\ dr.ok

====
